---- MODULE Spec2Model ----
(***************************************************************************)
(* GarminDataImporter (scripts/import_extracted_data.ts): the import run   *)
(* over daily bundle files and activity bundle files into the relational   *)
(* store, one store statement per step.                                    *)
(***************************************************************************)
EXTENDS Integers, Sequences, FiniteSets, TLC

\* ------------------------------------------------------------------ bounds
\* Records per bundle (daily records per file, activity wrappers per file).
MaxRecs == 3
\* Statements the store may reject in one run for reasons of its own.
MaxRejects == 1
\* Last reading of the store's clock (CURRENT_TIMESTAMP).
MaxClock == 1
\* Entries of the export directory.
MaxDir == 3
\* Explicitly named files per category (--file, --activities-file).
MaxArgs == 2

\* ------------------------------------------------------- JavaScript values
Undef == [t |-> "undefined"]
Null == [t |-> "null"]
Num(n) == [t |-> "number", v |-> n]
Str(s) == [t |-> "string", v |-> s]
Bool(b) == [t |-> "boolean", v |-> b]
Obj(p) == [t |-> "object", p |-> p]
\* An object with no own property ({}).
EmptyProps == [k \in {} |-> Undef]

\* Reading a property of null or undefined raises a TypeError.
ReadThrows(o) == o.t \in {"null", "undefined"}
\* o.k where o is neither null nor undefined (a primitive has no such property).
Get(o, k) ==
    IF o.t = "object" /\ k \in DOMAIN o.p THEN o.p[k] ELSE Undef
\* o?.k
OptGet(o, k) == IF ReadThrows(o) THEN Undef ELSE Get(o, k)
Truthy(v) ==
    CASE v.t = "undefined" -> FALSE
      [] v.t = "null" -> FALSE
      [] v.t = "number" -> v.v # 0
      [] v.t = "string" -> v.v # ""
      [] v.t = "boolean" -> v.v
      [] OTHER -> TRUE
\* v || d
OrElse(v, d) == IF Truthy(v) THEN v ELSE d
\* v ? new Date(v) : null
DateOrNull(v) == IF Truthy(v) THEN [t |-> "date", v |-> v.v] ELSE Null
\* Math.round on a number kept in tenths: the nearest whole, halves upwards.
MathRound(v) == Num((v.v + 5) \div 10)
\* node-postgres sends an undefined parameter as NULL.
Param(v) == IF v.t = "undefined" THEN Null ELSE v

\* A column the statement does not name takes its default on insert.
ColumnDefault == [t |-> "default"]
\* this.userId
UserId == Str("garmin_user")

\* ------------------------------------------------- source records (inputs)
\* The day records a daily bundle may hold under a date.
\* A day with every sub-section.
DayA ==
    Obj([stats |-> Obj([totalSteps |-> Num(9000), totalDistanceMeters |-> Num(7000),
                        activeKilocalories |-> Num(500), bmrKilocalories |-> Num(1600),
                        totalKilocalories |-> Num(2100)]),
         heart_rate |-> Obj([restingHeartRate |-> Num(55), minHeartRate |-> Num(48),
                             maxHeartRate |-> Num(150)]),
         hydration |-> Obj([hydrationGoal |-> Num(2500), hydrationIntake |-> Num(1800)]),
         sleep |-> Obj([totalSleepTimeSeconds |-> Num(27000), deepSleepSeconds |-> Num(6000),
                        lightSleepSeconds |-> Num(15000), remSleepSeconds |-> Num(5000),
                        awakeSleepSeconds |-> Num(1000),
                        sleepStartTimestampLocal |-> Num(1704060000),
                        sleepEndTimestampLocal |-> Num(1704088000),
                        overallSleepScore |-> Num(80)]),
         body_composition |-> Obj([weight |-> Num(72), bodyFat |-> Num(18),
                                   muscleMass |-> Num(33), boneMass |-> Num(3),
                                   bmi |-> Num(23)]),
         user_summary |-> Obj([displayName |-> Str("alice"), email |-> Str("a@x.org")])])
\* A day with zero steps, no heart-rate, hydration or body sub-section, a sleep
\* sub-section without timestamps, and a profile without a display name.
DayB ==
    Obj([stats |-> Obj([totalSteps |-> Num(0), totalDistanceMeters |-> Num(100),
                        totalKilocalories |-> Num(1700)]),
         sleep |-> Obj([totalSleepTimeSeconds |-> Num(20000), deepSleepSeconds |-> Num(0),
                        overallSleepScore |-> Num(61)]),
         user_summary |-> Obj([email |-> Str("b@x.org")])])
\* A day that is an object with no sub-section at all.
DayBare == Obj(EmptyProps)
\* A date whose value is null: not an object.
DayNull == Null
DayPool == {DayA, DayB, DayBare, DayNull}

\* The wrappers an activity bundle may hold.
ActA1 ==
    Obj([summary |-> Obj([activityId |-> Num(101), activityName |-> Str("run"),
                          activityType |-> Obj([typeKey |-> Str("running")]),
                          startTimeLocal |-> Num(1704100000), startTimeGMT |-> Num(1704096400),
                          duration |-> Num(18005), distance |-> Num(5000),
                          calories |-> Num(400), bmrCalories |-> Num(60),
                          averageHR |-> Num(140), maxHR |-> Num(170),
                          averageSpeed |-> Num(3), maxSpeed |-> Num(5),
                          elevationGain |-> Num(40), elevationLoss |-> Num(35),
                          startLatitude |-> Num(52), startLongitude |-> Num(13),
                          hasPolyline |-> Bool(TRUE), activeKilocalories |-> Num(340)])])
\* The same activity id exported again with other values, several of them absent.
ActA2 ==
    Obj([summary |-> Obj([activityId |-> Num(101), activityName |-> Str("long run"),
                          activityType |-> Obj([typeKey |-> Str("trail_running")]),
                          startTimeLocal |-> Num(1704200000),
                          distance |-> Num(5200), calories |-> Num(0),
                          averageHR |-> Num(142), maxHR |-> Num(171),
                          elevationGain |-> Num(41),
                          startLatitude |-> Num(48), startLongitude |-> Num(11),
                          activeKilocalories |-> Num(350)])])
ActB ==
    Obj([summary |-> Obj([activityId |-> Num(202), activityName |-> Str("ride"),
                          duration |-> Num(36004), distance |-> Num(20000),
                          hasPolyline |-> Bool(FALSE)])])
\* A summary without its activity id.
ActNoId == Obj([summary |-> Obj([activityName |-> Str("walk"), duration |-> Num(6000)])])
\* A wrapper without a summary.
ActNoSummary == Obj([details |-> Obj(EmptyProps)])
\* An element of the activities array that is null: not an object.
ActNull == Null
ActPool == {ActA1, ActA2, ActB, ActNoId, ActNoSummary, ActNull}

\* ------------------------------------------------------- record normalizer
\* The parameter list of the user_profile statement.
ProfileRow(userData) ==
    [user_id |-> UserId,
     display_name |-> OrElse(Get(userData, "displayName"), Str("Garmin User")),
     email |-> OrElse(Get(userData, "email"), Null),
     updated_at |-> ColumnDefault]

\* The daily parameter list with 0 in place of null for the heart-rate fields.
DailyRowZeroHeartRate(date, dayData) ==
    LET stats == Get(dayData, "stats")
        heartRate == Get(dayData, "heart_rate")
        hydration == Get(dayData, "hydration")
    IN  [date |-> date,
         user_id |-> UserId,
         total_steps |-> OrElse(Get(stats, "totalSteps"), Null),
         total_distance_meters |-> OrElse(Get(stats, "totalDistanceMeters"), Null),
         active_calories |-> OrElse(Get(stats, "activeKilocalories"), Null),
         resting_calories |-> OrElse(Get(stats, "bmrKilocalories"), Null),
         total_calories |-> OrElse(Get(stats, "totalKilocalories"), Null),
         resting_heart_rate |-> OrElse(OptGet(heartRate, "restingHeartRate"), Num(0)),
         min_heart_rate |-> OrElse(OptGet(heartRate, "minHeartRate"), Num(0)),
         max_heart_rate |-> OrElse(OptGet(heartRate, "maxHeartRate"), Num(0)),
         hydration_goal_ml |-> OrElse(OptGet(hydration, "hydrationGoal"), Null),
         hydration_intake_ml |-> OrElse(OptGet(hydration, "hydrationIntake"), Null)]

\* The parameter list of the daily_health_metrics statement.
DailyRow(date, dayData) ==
    LET stats == Get(dayData, "stats")
        heartRate == Get(dayData, "heart_rate")
        hydration == Get(dayData, "hydration")
    IN  [date |-> date,
         user_id |-> UserId,
         total_steps |-> OrElse(Get(stats, "totalSteps"), Null),
         total_distance_meters |-> OrElse(Get(stats, "totalDistanceMeters"), Null),
         active_calories |-> OrElse(Get(stats, "activeKilocalories"), Null),
         resting_calories |-> OrElse(Get(stats, "bmrKilocalories"), Null),
         total_calories |-> OrElse(Get(stats, "totalKilocalories"), Null),
         resting_heart_rate |-> OrElse(OptGet(heartRate, "restingHeartRate"), Null),
         min_heart_rate |-> OrElse(OptGet(heartRate, "minHeartRate"), Null),
         max_heart_rate |-> OrElse(OptGet(heartRate, "maxHeartRate"), Null),
         hydration_goal_ml |-> OrElse(OptGet(hydration, "hydrationGoal"), Null),
         hydration_intake_ml |-> OrElse(OptGet(hydration, "hydrationIntake"), Null)]

\* The parameter list of the sleep_sessions statement.
SleepRow(date, dayData) ==
    LET sleep == Get(dayData, "sleep")
    IN  [user_id |-> UserId,
         sleep_date |-> date,
         sleep_duration_seconds |-> OrElse(Get(sleep, "totalSleepTimeSeconds"), Null),
         deep_sleep_seconds |-> OrElse(Get(sleep, "deepSleepSeconds"), Null),
         light_sleep_seconds |-> OrElse(Get(sleep, "lightSleepSeconds"), Null),
         rem_sleep_seconds |-> OrElse(Get(sleep, "remSleepSeconds"), Null),
         awake_seconds |-> OrElse(Get(sleep, "awakeSleepSeconds"), Null),
         sleep_start_time |-> DateOrNull(Get(sleep, "sleepStartTimestampLocal")),
         sleep_end_time |-> DateOrNull(Get(sleep, "sleepEndTimestampLocal")),
         sleep_score |-> OrElse(Get(sleep, "overallSleepScore"), Null)]

\* The parameter list of the body_composition statement.
BodyRow(date, dayData) ==
    LET bodyComp == Get(dayData, "body_composition")
    IN  [measurement_date |-> date,
         user_id |-> UserId,
         weight_kg |-> OrElse(Get(bodyComp, "weight"), Null),
         body_fat_percentage |-> OrElse(Get(bodyComp, "bodyFat"), Null),
         muscle_mass_kg |-> OrElse(Get(bodyComp, "muscleMass"), Null),
         bone_mass_kg |-> OrElse(Get(bodyComp, "boneMass"), Null),
         bmi |-> OrElse(Get(bodyComp, "bmi"), Null)]

\* The parameter list of the activities statement (activity is a summary that
\* is neither null nor undefined).
ActivityRow(activity) ==
    [activity_id |-> Param(Get(activity, "activityId")),
     user_id |-> UserId,
     activity_name |-> OrElse(Get(activity, "activityName"), Null),
     activity_type |-> OrElse(OptGet(Get(activity, "activityType"), "typeKey"), Null),
     start_time_local |-> DateOrNull(Get(activity, "startTimeLocal")),
     start_time_gmt |-> DateOrNull(Get(activity, "startTimeGMT")),
     duration_seconds |-> MathRound(OrElse(Get(activity, "duration"), Num(0))),
     distance_meters |-> OrElse(Get(activity, "distance"), Null),
     calories |-> OrElse(Get(activity, "calories"), Null),
     bmr_calories |-> OrElse(Get(activity, "bmrCalories"), Null),
     average_hr |-> OrElse(Get(activity, "averageHR"), Null),
     max_hr |-> OrElse(Get(activity, "maxHR"), Null),
     average_speed |-> OrElse(Get(activity, "averageSpeed"), Null),
     max_speed |-> OrElse(Get(activity, "maxSpeed"), Null),
     elevation_gain |-> OrElse(Get(activity, "elevationGain"), Null),
     elevation_loss |-> OrElse(Get(activity, "elevationLoss"), Null),
     begin_latitude |-> OrElse(Get(activity, "startLatitude"), Null),
     begin_longitude |-> OrElse(Get(activity, "startLongitude"), Null),
     has_polyline |-> OrElse(Get(activity, "hasPolyline"), Bool(FALSE)),
     active_calories |-> OrElse(Get(activity, "activeKilocalories"), Null)]

\* ---------------------------------------------------------- upsert executor
\* INSERT ... ON CONFLICT (keyCols) DO UPDATE SET updCols = EXCLUDED.updCols,
\* as one atomic statement on a relation held as the list of its rows.
Conflicts(r, row, keyCols) == \A k \in keyCols : r[k] = row[k]
\* A conflict clause written SET col = COALESCE(EXCLUDED.col, col): a null of
\* the newer record keeps the older value.
UpsertKeepsOldWhereNull(rel, row, keyCols, updCols) ==
    IF \E i \in DOMAIN rel : Conflicts(rel[i], row, keyCols)
    THEN [i \in DOMAIN rel |->
            IF Conflicts(rel[i], row, keyCols)
            THEN [c \in DOMAIN rel[i] |->
                    IF c \in updCols /\ row[c] # Null THEN row[c] ELSE rel[i][c]]
            ELSE rel[i]]
    ELSE Append(rel, row)
\* A plain INSERT on a relation without its unique key.
UpsertInsertsAlways(rel, row, keyCols, updCols) == Append(rel, row)
Upsert(rel, row, keyCols, updCols) ==
    IF \E i \in DOMAIN rel : Conflicts(rel[i], row, keyCols)
    THEN [i \in DOMAIN rel |->
            IF Conflicts(rel[i], row, keyCols)
            THEN [c \in DOMAIN rel[i] |-> IF c \in updCols THEN row[c] ELSE rel[i][c]]
            ELSE rel[i]]
    ELSE Append(rel, row)

\* activities.activity_id is the relation's key: the store rejects a NULL in it.
KeyIsNull(row) == row.activity_id = Null

ProfileKey == {"user_id"}
ProfileUpdate == {"display_name", "updated_at"}
DailyKey == {"date", "user_id"}
DailyUpdate ==
    {"total_steps", "total_distance_meters", "active_calories", "resting_calories",
     "total_calories", "resting_heart_rate", "min_heart_rate", "max_heart_rate",
     "hydration_goal_ml", "hydration_intake_ml"}
SleepKey == {"user_id", "sleep_date"}
SleepUpdate ==
    {"sleep_duration_seconds", "deep_sleep_seconds", "light_sleep_seconds",
     "rem_sleep_seconds", "awake_seconds", "sleep_start_time", "sleep_end_time",
     "sleep_score"}
BodyKey == {"measurement_date", "user_id"}
BodyUpdate == {"weight_kg", "body_fat_percentage", "muscle_mass_kg", "bone_mass_kg", "bmi"}
ActivityKey == {"activity_id"}
\* A conflict-update list that also overwrites the coordinates and the flag.
ActivityUpdateWithCoordinates ==
    {"activity_name", "duration_seconds", "distance_meters", "calories", "bmr_calories",
     "average_hr", "max_hr", "average_speed", "max_speed", "elevation_gain",
     "elevation_loss", "begin_latitude", "begin_longitude", "has_polyline"}
ActivityUpdate ==
    {"activity_name", "duration_seconds", "distance_meters", "calories", "bmr_calories",
     "average_hr", "max_hr", "average_speed", "max_speed", "elevation_gain",
     "elevation_loss"}

\* The user_profile statement: an inserted row leaves updated_at to the column's
\* default, a conflicting row takes CURRENT_TIMESTAMP (ts).
UpsertProfile(rel, row, ts) ==
    IF \E i \in DOMAIN rel : Conflicts(rel[i], row, ProfileKey)
    THEN Upsert(rel, [row EXCEPT !.updated_at = ts], ProfileKey, ProfileUpdate)
    ELSE Append(rel, row)
Stamp(n) == [t |-> "timestamp", v |-> n]

\* --------------------------------------------------------------- file names
\* A file name is base + seq + ext, e.g. garmin_daily_ 1 .json
Name(b, n, e) == [base |-> b, seq |-> n, ext |-> e]
D1 == Name("garmin_daily_", 1, ".json")
D2 == Name("garmin_daily_", 2, ".json")
D3 == Name("garmin_daily_", 3, ".json")
A1 == Name("garmin_activities_", 1, ".json")
A2 == Name("garmin_activities_", 2, ".json")
A3 == Name("garmin_activities_", 3, ".json")
Csv == Name("garmin_daily_", 1, ".csv")

\* file.includes('garmin_daily_') && file.endsWith('.json')
IsDailyFile(f) == f.base = "garmin_daily_" /\ f.ext = ".json"
\* file.includes('activities') && file.endsWith('.json')
IsActivitiesFile(f) == f.base = "garmin_activities_" /\ f.ext = ".json"


\* The order of two names as strings (code units), component by component.
BaseRank(b) == CASE b = "garmin_activities_" -> 1 [] b = "garmin_daily_" -> 2 [] OTHER -> 3
ExtRank(e) == CASE e = ".csv" -> 1 [] e = ".json" -> 2 [] OTHER -> 3
NameLess(a, b) ==
    \/ BaseRank(a.base) < BaseRank(b.base)
    \/ /\ a.base = b.base
       /\ \/ a.seq < b.seq
          \/ a.seq = b.seq /\ ExtRank(a.ext) < ExtRank(b.ext)
Range(s) == {s[i] : i \in DOMAIN s}
\* Array.prototype.sort() on a list of distinct names.
RECURSIVE SortSet(_)
SortSet(S) ==
    IF S = {} THEN <<>>
    ELSE LET m == CHOOSE x \in S : \A y \in S \ {x} : NameLess(x, y)
         IN  <<m>> \o SortSet(S \ {m})
Sort(s) == SortSet(Range(s))

\* ------------------------------------------------------------------- state
VARIABLES
    fs,             \* file system: name -> content, for the files that exist
    dir,            \* fs.readdirSync(exportsDir): the listing, in its order
    args,           \* parseArgs(process.argv.slice(2))
    store,          \* the five relations, each the list of its rows
    conn,           \* pgClient: "new", "open", "ended"
    now,            \* the store's clock
    pc,             \* where run() stands
    cat,            \* the importer at work: the relation it writes
    thrown,         \* the error propagating out of run(), or "none"
    outcome,        \* run(): "pending", "resolved", "rejected"
    exportFiles,    \* run: exportFiles
    fileIdx,        \* run: position in exportFiles
    activityFiles,  \* importActivities: activityFiles
    actFileIdx,     \* importActivities: position in activityFiles
    recIdx,         \* position in the record loop of the current importer
    imported,       \* the current importer's imported
    errors,         \* the current importer's errors
    totalImported,  \* importActivities: totalImported
    totalErrors,    \* importActivities: totalErrors
    stats,          \* this.stats
    vIdx,           \* verifyImport: position in checks
    rejects,        \* statements the store has rejected for its own reasons
    lastOp,         \* the last store operation issued: connect, query, end
    disconnects,    \* calls of disconnect()
    accepted,       \* upserts the store accepted in this run, per relation
    profCalls,      \* user_profile statements issued for the current file
    snap,           \* the store when the current file was opened
    clean,          \* no statement of the current file was rejected so far
    prevClean,      \* clean, of the file processed before the current one
    unverifiable,   \* the relations whose count query raises
    peer            \* a second run on the same store: its statements, and the next one

vars ==
    <<fs, dir, args, store, conn, now, pc, cat, thrown, outcome, exportFiles, fileIdx,
      activityFiles, actFileIdx, recIdx, imported, errors, totalImported, totalErrors,
      stats, vIdx, rejects, lastOp, disconnects, accepted, profCalls, snap, clean,
      prevClean, unverifiable, peer>>

Relations ==
    {"user_profile", "daily_health_metrics", "sleep_sessions", "activities",
     "body_composition"}
EmptyStore == [r \in Relations |-> <<>>]
\* The store as an earlier run left it: a profile, one day and one activity.
PriorStore ==
    [EmptyStore EXCEPT
       !["user_profile"] =
           <<[ProfileRow(Obj([displayName |-> Str("old"), email |-> Str("old@x.org")]))
               EXCEPT !.updated_at = Stamp(0)]>>,
       !["daily_health_metrics"] = <<DailyRow(1, DayA)>>,
       !["body_composition"] =
           <<BodyRow(1, Obj([body_composition |->
                               Obj([weight |-> Num(75), bodyFat |-> Num(21),
                                    muscleMass |-> Num(31), boneMass |-> Num(4),
                                    bmi |-> Num(24)])]))>>,
       !["activities"] = <<ActivityRow(Get(ActA2, "summary"))>>]

\* ------------------------------------------------------------------ inputs
\* The bundles of at most MaxRecs records; record i stands under the i-th date.
SeqsUpTo(S, n) == UNION {[1..k -> S] : k \in 0..n}
Garbage == [parses |-> FALSE]
DailyBundle(recs) == [parses |-> TRUE, kind |-> "daily", recs |-> recs]
ActivityBundle(recs) == [parses |-> TRUE, kind |-> "activities", recs |-> recs]
DailyContents == {DailyBundle(r) : r \in SeqsUpTo(DayPool, MaxRecs)} \cup {Garbage}
ActivityContents == {ActivityBundle(r) : r \in SeqsUpTo(ActPool, MaxRecs)} \cup {Garbage}
\* The export directory of the selection runs: one small bundle per name.
SmallFs ==
    (D1 :> DailyBundle(<<DayA>>)) @@ (D2 :> DailyBundle(<<DayB>>)) @@
    (A1 :> ActivityBundle(<<ActA1>>)) @@ (A2 :> ActivityBundle(<<ActA2>>)) @@
    (Csv :> Garbage)
Restrict(f, S) == [x \in S |-> f[x]]
\* The lists without repetition of at most n names of S.
Listings(S, n) ==
    {s \in SeqsUpTo(S, n) : \A i, j \in DOMAIN s : i # j => s[i] # s[j]}
NoArgs ==
    [dailyFiles |-> <<>>, activityFiles |-> <<>>, onlyLatest |-> FALSE,
     onlyLatestActivities |-> FALSE]

\* Directory scans: any listing, in any order, with either flag.
InitScan ==
    /\ dir \in Listings(DOMAIN SmallFs, MaxDir)
    /\ fs = Restrict(SmallFs, Range(dir))
    /\ \E a, b \in BOOLEAN :
         args = [NoArgs EXCEPT !.onlyLatest = a, !.onlyLatestActivities = b]
    /\ store = EmptyStore
\* Explicitly named files, some of which do not exist (D3, A3), over an empty
\* store or one that holds earlier rows.
InitExplicit ==
    /\ dir = <<D1, A1>>
    /\ fs = Restrict(SmallFs, {D1, D2, A1})
    /\ \E d \in SeqsUpTo({D1, D2, D3}, MaxArgs), f \in {<<>>, <<A1>>, <<A3>>},
          a, b \in BOOLEAN :
         args = [dailyFiles |-> d, activityFiles |-> f, onlyLatest |-> a,
                 onlyLatestActivities |-> b]
    /\ store \in {EmptyStore, PriorStore}
\* One daily bundle of any content, imported twice in a row.
InitDaily ==
    /\ dir = <<D1>>
    /\ \E c \in DailyContents : fs = (D1 :> c)
    /\ args = [NoArgs EXCEPT !.dailyFiles = <<D1, D1>>]
    /\ store = EmptyStore
\* One activity bundle of any content, imported twice in a row.
InitActivities ==
    /\ dir = <<D1, A1>>
    /\ \E c \in ActivityContents : fs = (D1 :> DailyBundle(<<>>)) @@ (A1 :> c)
    /\ args = [NoArgs EXCEPT !.activityFiles = <<A1, A1>>]
    /\ store \in {EmptyStore, PriorStore}

NoStats == [k \in {} |-> 0]
\* One run over a directory whose files make every step of run() fail in turn:
\* records that are not objects, a wrapper without summary, a bundle that does
\* not parse, and named files that do not exist.
FailingFs(last) ==
    (D1 :> DailyBundle(<<DayA, DayNull, DayBare>>)) @@ (D2 :> Garbage) @@
    (A1 :> ActivityBundle(<<ActA1, ActNoId>>)) @@
    (A2 :> ActivityBundle(<<ActA2, last>>))
InitExitPaths ==
    /\ dir \in {<<>>, <<D1>>, <<D2, D1>>, <<D1, A1>>, <<A2, D1>>, <<D1, A2, A1>>}
    /\ \E last \in {ActNoSummary, ActNull} : fs = Restrict(FailingFs(last), Range(dir))
    /\ \E d \in {<<>>, <<D3, D1>>}, f \in {<<>>, <<A3>>}, a, b \in BOOLEAN :
         args = [dailyFiles |-> d, activityFiles |-> f, onlyLatest |-> a,
                 onlyLatestActivities |-> b]
    /\ store = EmptyStore

\* The importer object after construction, before run() is called.
Constructed ==
    /\ conn = "new"
    /\ now = 0
    /\ pc = "connect"
    /\ cat = "none"
    /\ thrown = "none"
    /\ outcome = "pending"
    /\ exportFiles = <<>>
    /\ fileIdx = 0
    /\ activityFiles = <<>>
    /\ actFileIdx = 0
    /\ recIdx = 0
    /\ imported = 0
    /\ errors = 0
    /\ totalImported = 0
    /\ totalErrors = 0
    /\ stats = NoStats
    /\ vIdx = 0
    /\ rejects = 0
    /\ lastOp = "none"
    /\ disconnects = 0
    /\ accepted = [r \in Relations |-> 0]
    /\ profCalls = 0
    /\ snap = store
    /\ clean = TRUE
    /\ prevClean = TRUE

\* No second run.
NoPeer == [stmts |-> <<>>, at |-> 1]
\* One run over a daily and an activity bundle, with any of the five count
\* queries of verifyImport raising.
InitVerify ==
    /\ dir = <<D1, A1>>
    /\ fs = Restrict(SmallFs, {D1, A1})
    /\ args = NoArgs
    /\ store = EmptyStore
    /\ unverifiable \in SUBSET Relations
Init ==
    /\ \/ /\ InitScan \/ InitExplicit \/ InitDaily \/ InitActivities \/ InitExitPaths
          /\ unverifiable = {}
       \/ InitVerify
    /\ Constructed
    /\ peer = NoPeer
\* ------------------------------------------------------------ file selector
Last(s) == s[Len(s)]
\* run: the daily files to process.
SelectExportFiles(a, listing) ==
    LET found == IF Len(a.dailyFiles) > 0
                 THEN a.dailyFiles
                 ELSE Sort(SelectSeq(listing, IsDailyFile))
    IN  IF a.onlyLatest /\ Len(found) > 1 THEN <<Last(found)>> ELSE found
\* run: the files argument of importActivities (<<>> stands for none given).
ActivityFilesArgument(a, listing) ==
    IF Len(a.activityFiles) > 0 THEN a.activityFiles
    ELSE IF a.onlyLatestActivities
         THEN LET all == Sort(SelectSeq(listing, IsActivitiesFile))
              IN  IF Len(all) > 0 THEN <<Last(all)>> ELSE <<>>
         ELSE <<>>
\* importActivities: the activity files to process.
SelectActivityFiles(files, listing) ==
    IF Len(files) > 0 THEN files ELSE SelectSeq(listing, IsActivitiesFile)

\* ------------------------------------------------------------- run helpers
CurFile == exportFiles[fileIdx]
CurActFile == activityFiles[actFileIdx]
\* fs.existsSync
Exists(f) == f \in DOMAIN fs
\* JSON.parse(fs.readFileSync(f)) raises: no such file, or not JSON.
ReadFails(f) == IF Exists(f) THEN ~fs[f].parses ELSE TRUE
\* Object.entries(data.data) / activitiesData.activities of the open file.
Records(f) == fs[f].recs
\* Object.values(data.data)[0]
\* The first record that carries a profile, instead of the first record.
FirstDayWithProfile(recs) ==
    LET with == {i \in DOMAIN recs : Truthy(OptGet(recs[i], "user_summary"))}
    IN  IF with = {} THEN Undef
        ELSE recs[CHOOSE i \in with : \A j \in with : i <= j]
FirstDay(recs) == IF recs = <<>> THEN Undef ELSE recs[1]
\* this.stats[k] = v
SetStat(st, k, v) == [x \in DOMAIN st \cup {k} |-> IF x = k THEN v ELSE st[x]]
RECURSIVE SumOver(_, _)
SumOver(st, K) ==
    IF K = {} THEN 0
    ELSE LET k == CHOOSE x \in K : TRUE IN st[k] + SumOver(st, K \ {k})
\* Object.values(this.stats).reduce((sum, count) => sum + count, 0)
TotalRecords(st) == SumOver(st, DOMAIN st)
Min(a, b) == IF a < b THEN a ELSE b

\* The three importers over the dated records of a daily bundle.
DayImporters == <<"daily_health_metrics", "sleep_sessions", "body_composition">>
\* The sub-section an importer requires of a day.
Section(c) ==
    CASE c = "daily_health_metrics" -> "stats"
      [] c = "sleep_sessions" -> "sleep"
      [] c = "body_composition" -> "body_composition"
RowOf(c, date, dayData) ==
    CASE c = "daily_health_metrics" -> DailyRow(date, dayData)
      [] c = "sleep_sessions" -> SleepRow(date, dayData)
      [] c = "body_composition" -> BodyRow(date, dayData)
KeyOf(c) ==
    CASE c = "daily_health_metrics" -> DailyKey
      [] c = "sleep_sessions" -> SleepKey
      [] c = "body_composition" -> BodyKey
UpdateOf(c) ==
    CASE c = "daily_health_metrics" -> DailyUpdate
      [] c = "sleep_sessions" -> SleepUpdate
      [] c = "body_composition" -> BodyUpdate
\* The store has room to reject one more statement.
MayReject == rejects < MaxRejects
\* verifyImport: checks
Checks ==
    <<"user_profile", "daily_health_metrics", "sleep_sessions", "activities",
      "body_composition">>

\* ------------------------------------------------------------------ run()
\* run: await this.connect() succeeds.
ConnectOk ==
    /\ pc = "connect"
    /\ conn' = "open"
    /\ lastOp' = "connect"
    /\ pc' = "select"
    /\ UNCHANGED <<peer, unverifiable, fs, dir, args, store, now, cat, thrown, outcome, exportFiles, fileIdx,
                   activityFiles, actFileIdx, recIdx, imported, errors, totalImported,
                   totalErrors, stats, vIdx, rejects, disconnects, accepted, profCalls,
                   snap, clean, prevClean>>

\* run: await this.connect() raises (store unreachable): catch, rethrow, finally.
ConnectFails ==
    /\ pc = "connect"
    /\ lastOp' = "connect"
    /\ thrown' = "connect"
    /\ pc' = "finally"
    /\ UNCHANGED <<peer, unverifiable, fs, dir, args, store, conn, now, cat, outcome, exportFiles, fileIdx,
                   activityFiles, actFileIdx, recIdx, imported, errors, totalImported,
                   totalErrors, stats, vIdx, rejects, disconnects, accepted, profCalls,
                   snap, clean, prevClean>>

\* run raising when no export file is found.
SelectFilesEmptyIsFatal ==
    /\ pc = "select"
    /\ exportFiles' = SelectExportFiles(args, dir)
    /\ IF Len(exportFiles') = 0
       THEN pc' = "finally" /\ fileIdx' = fileIdx /\ thrown' = "Error"
       ELSE pc' = "file" /\ fileIdx' = 1 /\ thrown' = thrown
    /\ UNCHANGED <<peer, unverifiable, fs, dir, args, store, conn, now, cat, outcome, activityFiles,
                   actFileIdx, recIdx, imported, errors, totalImported, totalErrors,
                   stats, vIdx, rejects, lastOp, disconnects, accepted, profCalls, snap,
                   clean, prevClean>>

\* run: resolve the daily files; with none, return (through finally).
SelectFiles ==
    /\ pc = "select"
    /\ exportFiles' = SelectExportFiles(args, dir)
    /\ IF Len(exportFiles') = 0
       THEN pc' = "finally" /\ fileIdx' = fileIdx
       ELSE pc' = "file" /\ fileIdx' = 1
    /\ UNCHANGED <<peer, unverifiable, fs, dir, args, store, conn, now, cat, thrown, outcome, activityFiles,
                   actFileIdx, recIdx, imported, errors, totalImported, totalErrors,
                   stats, vIdx, rejects, lastOp, disconnects, accepted, profCalls, snap,
                   clean, prevClean>>

\* processExportFile raising on a file that does not exist.
FileMissingIsFatal ==
    /\ pc = "file"
    /\ ~Exists(CurFile)
    /\ thrown' = "ENOENT"
    /\ pc' = "finally"
    /\ UNCHANGED <<peer, unverifiable, fs, dir, args, store, conn, now, cat, outcome, exportFiles, fileIdx,
                   activityFiles, actFileIdx, recIdx, imported, errors, totalImported,
                   totalErrors, stats, vIdx, rejects, lastOp, disconnects, accepted,
                   profCalls, snap, clean, prevClean>>

\* processExportFile: the file does not exist: log and return; run goes on.
FileMissing ==
    /\ pc = "file"
    /\ ~Exists(CurFile)
    /\ IF fileIdx < Len(exportFiles)
       THEN fileIdx' = fileIdx + 1 /\ pc' = "file"
       ELSE fileIdx' = fileIdx /\ pc' = "activities"
    /\ snap' = store
    /\ prevClean' = clean
    /\ clean' = TRUE
    /\ profCalls' = 0
    /\ UNCHANGED <<peer, unverifiable, fs, dir, args, store, conn, now, cat, thrown, outcome, exportFiles,
                   activityFiles, actFileIdx, recIdx, imported, errors, totalImported,
                   totalErrors, stats, vIdx, rejects, lastOp, disconnects, accepted>>

\* processExportFile: JSON.parse raises; nothing catches it before run's catch.
FileUnparseable ==
    /\ pc = "file"
    /\ Exists(CurFile)
    /\ ~fs[CurFile].parses
    /\ thrown' = "SyntaxError"
    /\ pc' = "finally"
    /\ UNCHANGED <<peer, unverifiable, fs, dir, args, store, conn, now, cat, outcome, exportFiles, fileIdx,
                   activityFiles, actFileIdx, recIdx, imported, errors, totalImported,
                   totalErrors, stats, vIdx, rejects, lastOp, disconnects, accepted,
                   profCalls, snap, clean, prevClean>>

\* processExportFile: parse the bundle and look at the first day's user_summary.
OpenFile ==
    /\ pc = "file"
    /\ Exists(CurFile)
    /\ fs[CurFile].parses
    /\ IF Truthy(OptGet(FirstDay(Records(CurFile)), "user_summary"))
       THEN pc' = "profile" /\ UNCHANGED <<cat, imported, errors, recIdx>>
       ELSE /\ pc' = "loop"
            /\ cat' = DayImporters[1]
            /\ imported' = 0
            /\ errors' = 0
            /\ recIdx' = 1
    /\ snap' = store
    /\ prevClean' = clean
    /\ clean' = TRUE
    /\ profCalls' = 0
    /\ UNCHANGED <<peer, unverifiable, fs, dir, args, store, conn, now, thrown, outcome, exportFiles,
                   fileIdx, activityFiles, actFileIdx, totalImported, totalErrors, stats,
                   vIdx, rejects, lastOp, disconnects, accepted>>

\* What CURRENT_TIMESTAMP of the conflict clause may read: the clock has gone on
\* or not since the last reading. Without a conflict the clause is not evaluated.
Readings(row) ==
    IF \E i \in DOMAIN store["user_profile"] :
          Conflicts(store["user_profile"][i], row, ProfileKey)
    THEN now..Min(now + 1, MaxClock)
    ELSE {now}
\* importUserProfile: the statement is accepted; then importDailyHealthMetrics begins.
ProfileOk ==
    /\ pc = "profile"
    /\ \E ts \in Readings(ProfileRow(Get(FirstDay(Records(CurFile)), "user_summary"))) :
         /\ now' = ts
         /\ store' = [store EXCEPT !["user_profile"] =
              UpsertProfile(@, ProfileRow(Get(FirstDay(Records(CurFile)), "user_summary")),
                            Stamp(ts))]
    /\ stats' = SetStat(stats, "user_profile", 1)
    /\ accepted' = [accepted EXCEPT !["user_profile"] = @ + 1]
    /\ profCalls' = profCalls + 1
    /\ lastOp' = "query"
    /\ cat' = DayImporters[1]
    /\ imported' = 0
    /\ errors' = 0
    /\ recIdx' = 1
    /\ pc' = "loop"
    /\ UNCHANGED <<peer, unverifiable, fs, dir, args, conn, thrown, outcome, exportFiles, fileIdx,
                   activityFiles, actFileIdx, totalImported, totalErrors, vIdx, rejects,
                   disconnects, snap, clean, prevClean>>

\* importUserProfile: the store rejects the statement; the error is caught and logged.
ProfileRejected ==
    /\ pc = "profile"
    /\ MayReject
    /\ rejects' = rejects + 1
    /\ clean' = FALSE
    /\ profCalls' = profCalls + 1
    /\ lastOp' = "query"
    /\ cat' = DayImporters[1]
    /\ imported' = 0
    /\ errors' = 0
    /\ recIdx' = 1
    /\ pc' = "loop"
    /\ UNCHANGED <<peer, unverifiable, fs, dir, args, store, conn, now, thrown, outcome, exportFiles,
                   fileIdx, activityFiles, actFileIdx, totalImported, totalErrors, stats,
                   vIdx, disconnects, accepted, snap, prevClean>>

\* A day without the importer's sub-section counted as an error.
RecordSkippedCountsError ==
    /\ pc = "loop"
    /\ recIdx <= Len(Records(CurFile))
    /\ ~ReadThrows(Records(CurFile)[recIdx])
    /\ ~Truthy(Get(Records(CurFile)[recIdx], Section(cat)))
    /\ errors' = errors + 1
    /\ recIdx' = recIdx + 1
    /\ UNCHANGED <<peer, unverifiable, fs, dir, args, store, conn, now, pc, cat, thrown, outcome,
                   exportFiles, fileIdx, activityFiles, actFileIdx, imported,
                   totalImported, totalErrors, stats, vIdx, rejects, lastOp, disconnects,
                   accepted, profCalls, snap, clean, prevClean>>

\* The day lacks the importer's sub-section: continue.
RecordSkipped ==
    /\ pc = "loop"
    /\ recIdx <= Len(Records(CurFile))
    /\ ~ReadThrows(Records(CurFile)[recIdx])
    /\ ~Truthy(Get(Records(CurFile)[recIdx], Section(cat)))
    /\ recIdx' = recIdx + 1
    /\ UNCHANGED <<peer, unverifiable, fs, dir, args, store, conn, now, pc, cat, thrown, outcome,
                   exportFiles, fileIdx, activityFiles, actFileIdx, imported, errors,
                   totalImported, totalErrors, stats, vIdx, rejects, lastOp, disconnects,
                   accepted, profCalls, snap, clean, prevClean>>

\* The day is null: reading its sub-section raises inside the try; errors++.
RecordThrows ==
    /\ pc = "loop"
    /\ recIdx <= Len(Records(CurFile))
    /\ ReadThrows(Records(CurFile)[recIdx])
    /\ errors' = errors + 1
    /\ recIdx' = recIdx + 1
    /\ UNCHANGED <<peer, unverifiable, fs, dir, args, store, conn, now, pc, cat, thrown, outcome,
                   exportFiles, fileIdx, activityFiles, actFileIdx, imported,
                   totalImported, totalErrors, stats, vIdx, rejects, lastOp, disconnects,
                   accepted, profCalls, snap, clean, prevClean>>

\* The upsert of the day's row is accepted: imported++.
RecordOk ==
    /\ pc = "loop"
    /\ recIdx <= Len(Records(CurFile))
    /\ ~ReadThrows(Records(CurFile)[recIdx])
    /\ Truthy(Get(Records(CurFile)[recIdx], Section(cat)))
    /\ store' = [store EXCEPT ![cat] =
         Upsert(@, RowOf(cat, recIdx, Records(CurFile)[recIdx]), KeyOf(cat), UpdateOf(cat))]
    /\ imported' = imported + 1
    /\ accepted' = [accepted EXCEPT ![cat] = @ + 1]
    /\ lastOp' = "query"
    /\ recIdx' = recIdx + 1
    /\ UNCHANGED <<peer, unverifiable, fs, dir, args, conn, now, pc, cat, thrown, outcome, exportFiles,
                   fileIdx, activityFiles, actFileIdx, errors, totalImported,
                   totalErrors, stats, vIdx, rejects, disconnects, profCalls, snap,
                   clean, prevClean>>

\* A dated importer without the try/catch around its statement: the store's
\* rejection propagates out of run().
RecordRejectedAborts ==
    /\ pc = "loop"
    /\ recIdx <= Len(Records(CurFile))
    /\ ~ReadThrows(Records(CurFile)[recIdx])
    /\ Truthy(Get(Records(CurFile)[recIdx], Section(cat)))
    /\ MayReject
    /\ rejects' = rejects + 1
    /\ clean' = FALSE
    /\ lastOp' = "query"
    /\ thrown' = "StoreError"
    /\ pc' = "finally"
    /\ UNCHANGED <<peer, unverifiable, fs, dir, args, store, conn, now, cat, outcome,
                   exportFiles, fileIdx, activityFiles, actFileIdx, imported, errors,
                   recIdx, totalImported, totalErrors, stats, vIdx, disconnects, accepted,
                   profCalls, snap, prevClean>>

\* The store rejects the upsert of the day's row: errors++, next record.
RecordRejected ==
    /\ pc = "loop"
    /\ recIdx <= Len(Records(CurFile))
    /\ ~ReadThrows(Records(CurFile)[recIdx])
    /\ Truthy(Get(Records(CurFile)[recIdx], Section(cat)))
    /\ MayReject
    /\ rejects' = rejects + 1
    /\ clean' = FALSE
    /\ errors' = errors + 1
    /\ lastOp' = "query"
    /\ recIdx' = recIdx + 1
    /\ UNCHANGED <<peer, unverifiable, fs, dir, args, store, conn, now, pc, cat, thrown, outcome,
                   exportFiles, fileIdx, activityFiles, actFileIdx, imported,
                   totalImported, totalErrors, stats, vIdx, disconnects, accepted,
                   profCalls, snap, prevClean>>

\* processExportFile turning to the next file once the first importer of a file
\* that is not the last is through.
ImporterEndStartsNextFile ==
    /\ pc = "loop"
    /\ recIdx > Len(Records(CurFile))
    /\ stats' = SetStat(stats, cat, imported)
    /\ IF cat # Last(DayImporters) /\ fileIdx = Len(exportFiles)
       THEN /\ cat' = IF cat = DayImporters[1] THEN DayImporters[2] ELSE DayImporters[3]
            /\ imported' = 0
            /\ errors' = 0
            /\ recIdx' = 1
            /\ pc' = "loop"
            /\ fileIdx' = fileIdx
       ELSE /\ UNCHANGED <<cat, imported, errors, recIdx>>
            /\ IF fileIdx < Len(exportFiles)
               THEN fileIdx' = fileIdx + 1 /\ pc' = "file"
               ELSE fileIdx' = fileIdx /\ pc' = "activities"
    /\ UNCHANGED <<peer, unverifiable, fs, dir, args, store, conn, now, thrown, outcome, exportFiles,
                   activityFiles, actFileIdx, totalImported, totalErrors, vIdx, rejects,
                   lastOp, disconnects, accepted, profCalls, snap, clean, prevClean>>

\* The loop is over: this.stats[category] = imported; then the next importer
\* (imported = 0, errors = 0), the next file, or importActivities.
ImporterEnd ==
    /\ pc = "loop"
    /\ recIdx > Len(Records(CurFile))
    /\ stats' = SetStat(stats, cat, imported)
    /\ IF cat # Last(DayImporters)
       THEN /\ cat' = IF cat = DayImporters[1] THEN DayImporters[2] ELSE DayImporters[3]
            /\ imported' = 0
            /\ errors' = 0
            /\ recIdx' = 1
            /\ pc' = "loop"
            /\ fileIdx' = fileIdx
       ELSE /\ UNCHANGED <<cat, imported, errors, recIdx>>
            /\ IF fileIdx < Len(exportFiles)
               THEN fileIdx' = fileIdx + 1 /\ pc' = "file"
               ELSE fileIdx' = fileIdx /\ pc' = "activities"
    /\ UNCHANGED <<peer, unverifiable, fs, dir, args, store, conn, now, thrown, outcome, exportFiles,
                   activityFiles, actFileIdx, totalImported, totalErrors, vIdx, rejects,
                   lastOp, disconnects, accepted, profCalls, snap, clean, prevClean>>

\* run, importActivities: resolve the activity files; with none, return.
ImportActivities ==
    /\ pc = "activities"
    /\ activityFiles' = SelectActivityFiles(ActivityFilesArgument(args, dir), dir)
    /\ IF Len(activityFiles') = 0
       THEN /\ pc' = "verify"
            /\ vIdx' = 1
            /\ UNCHANGED <<actFileIdx, totalImported, totalErrors, cat>>
       ELSE /\ pc' = "actFile"
            /\ actFileIdx' = 1
            /\ totalImported' = 0
            /\ totalErrors' = 0
            /\ cat' = "activities"
            /\ vIdx' = vIdx
    /\ UNCHANGED <<peer, unverifiable, fs, dir, args, store, conn, now, thrown, outcome, exportFiles,
                   fileIdx, recIdx, imported, errors, stats, rejects, lastOp,
                   disconnects, accepted, profCalls, snap, clean, prevClean>>

\* importActivities: readFileSync or JSON.parse raises, outside any try of the importer.
ActFileUnreadable ==
    /\ pc = "actFile"
    /\ ReadFails(CurActFile)
    /\ thrown' = IF Exists(CurActFile) THEN "SyntaxError" ELSE "ENOENT"
    /\ pc' = "finally"
    /\ UNCHANGED <<peer, unverifiable, fs, dir, args, store, conn, now, cat, outcome, exportFiles, fileIdx,
                   activityFiles, actFileIdx, recIdx, imported, errors, totalImported,
                   totalErrors, stats, vIdx, rejects, lastOp, disconnects, accepted,
                   profCalls, snap, clean, prevClean>>

\* importActivities: the file is parsed; imported = 0, errors = 0.
ActFileOpen ==
    /\ pc = "actFile"
    /\ ~ReadFails(CurActFile)
    /\ imported' = 0
    /\ errors' = 0
    /\ recIdx' = 1
    /\ pc' = "act"
    /\ snap' = store
    /\ prevClean' = clean
    /\ clean' = TRUE
    /\ UNCHANGED <<peer, unverifiable, fs, dir, args, store, conn, now, cat, thrown, outcome, exportFiles,
                   fileIdx, activityFiles, actFileIdx, totalImported, totalErrors, stats,
                   vIdx, rejects, lastOp, disconnects, accepted, profCalls>>

\* activityWrapper.summary on a null wrapper raises before the try.
ActWrapperThrows ==
    /\ pc = "act"
    /\ recIdx <= Len(Records(CurActFile))
    /\ ReadThrows(Records(CurActFile)[recIdx])
    /\ thrown' = "TypeError"
    /\ pc' = "finally"
    /\ UNCHANGED <<peer, unverifiable, fs, dir, args, store, conn, now, cat, outcome, exportFiles, fileIdx,
                   activityFiles, actFileIdx, recIdx, imported, errors, totalImported,
                   totalErrors, stats, vIdx, rejects, lastOp, disconnects, accepted,
                   profCalls, snap, clean, prevClean>>

\* No summary: activity.activityId raises in the try, and again in the catch
\* handler's message, which nothing catches.
ActSummaryThrows ==
    /\ pc = "act"
    /\ recIdx <= Len(Records(CurActFile))
    /\ ~ReadThrows(Records(CurActFile)[recIdx])
    /\ ReadThrows(Get(Records(CurActFile)[recIdx], "summary"))
    /\ thrown' = "TypeError"
    /\ pc' = "finally"
    /\ UNCHANGED <<peer, unverifiable, fs, dir, args, store, conn, now, cat, outcome, exportFiles, fileIdx,
                   activityFiles, actFileIdx, recIdx, imported, errors, totalImported,
                   totalErrors, stats, vIdx, rejects, lastOp, disconnects, accepted,
                   profCalls, snap, clean, prevClean>>

\* The upsert of the activity is accepted: imported++.
ActOk ==
    /\ pc = "act"
    /\ recIdx <= Len(Records(CurActFile))
    /\ ~ReadThrows(Records(CurActFile)[recIdx])
    /\ ~ReadThrows(Get(Records(CurActFile)[recIdx], "summary"))
    /\ ~KeyIsNull(ActivityRow(Get(Records(CurActFile)[recIdx], "summary")))
    /\ store' = [store EXCEPT !["activities"] =
         Upsert(@, ActivityRow(Get(Records(CurActFile)[recIdx], "summary")),
                ActivityKey, ActivityUpdate)]
    /\ imported' = imported + 1
    /\ accepted' = [accepted EXCEPT !["activities"] = @ + 1]
    /\ lastOp' = "query"
    /\ recIdx' = recIdx + 1
    /\ UNCHANGED <<peer, unverifiable, fs, dir, args, conn, now, pc, cat, thrown, outcome, exportFiles,
                   fileIdx, activityFiles, actFileIdx, errors, totalImported,
                   totalErrors, stats, vIdx, rejects, disconnects, profCalls, snap,
                   clean, prevClean>>

\* The store rejects the upsert (a null activity_id, or a reason of its own):
\* errors++, next activity.
ActRejected ==
    /\ pc = "act"
    /\ recIdx <= Len(Records(CurActFile))
    /\ ~ReadThrows(Records(CurActFile)[recIdx])
    /\ ~ReadThrows(Get(Records(CurActFile)[recIdx], "summary"))
    /\ IF KeyIsNull(ActivityRow(Get(Records(CurActFile)[recIdx], "summary")))
       THEN rejects' = rejects /\ clean' = clean
       ELSE MayReject /\ rejects' = rejects + 1 /\ clean' = FALSE
    /\ errors' = errors + 1
    /\ lastOp' = "query"
    /\ recIdx' = recIdx + 1
    /\ UNCHANGED <<peer, unverifiable, fs, dir, args, store, conn, now, pc, cat, thrown, outcome,
                   exportFiles, fileIdx, activityFiles, actFileIdx, imported,
                   totalImported, totalErrors, stats, vIdx, disconnects, accepted,
                   profCalls, snap, prevClean>>

\* The file's loop is over: add to the totals; after the last file,
\* this.stats['activities'] = totalImported.
ActFileEnd ==
    /\ pc = "act"
    /\ recIdx > Len(Records(CurActFile))
    /\ totalImported' = totalImported + imported
    /\ totalErrors' = totalErrors + errors
    /\ IF actFileIdx < Len(activityFiles)
       THEN /\ actFileIdx' = actFileIdx + 1
            /\ pc' = "actFile"
            /\ UNCHANGED <<stats, vIdx>>
       ELSE /\ actFileIdx' = actFileIdx
            /\ stats' = SetStat(stats, "activities", totalImported')
            /\ pc' = "verify"
            /\ vIdx' = 1
    /\ UNCHANGED <<peer, unverifiable, fs, dir, args, store, conn, now, cat, thrown, outcome, exportFiles,
                   fileIdx, activityFiles, recIdx, imported, errors, rejects, lastOp,
                   disconnects, accepted, profCalls, snap, clean, prevClean>>

\* verifyImport without the try/catch around each query: a query that raises
\* ends the loop and rejects out of run().
VerifyCheckRaises ==
    /\ pc = "verify"
    /\ vIdx <= Len(Checks)
    /\ lastOp' = "query"
    /\ IF Checks[vIdx] \in unverifiable
       THEN thrown' = "QueryError" /\ pc' = "finally" /\ vIdx' = vIdx
       ELSE vIdx' = vIdx + 1 /\ UNCHANGED <<thrown, pc>>
    /\ UNCHANGED <<peer, unverifiable, fs, dir, args, store, conn, now, cat, outcome,
                   exportFiles, fileIdx, activityFiles, actFileIdx, recIdx, imported,
                   errors, totalImported, totalErrors, stats, rejects, disconnects,
                   accepted, profCalls, snap, clean, prevClean>>

\* verifyImport: one count query. Its result is logged; when it raises
\* (Checks[vIdx] \in unverifiable) the catch logs the error instead.
VerifyCheck ==
    /\ pc = "verify"
    /\ vIdx <= Len(Checks)
    /\ lastOp' = "query"
    /\ vIdx' = vIdx + 1
    /\ UNCHANGED <<peer, unverifiable, fs, dir, args, store, conn, now, pc, cat, thrown, outcome,
                   exportFiles, fileIdx, activityFiles, actFileIdx, recIdx, imported,
                   errors, totalImported, totalErrors, stats, rejects, disconnects,
                   accepted, profCalls, snap, clean, prevClean>>

\* run: totalRecords is computed and logged; the try block ends.
Summary ==
    /\ pc = "verify"
    /\ vIdx > Len(Checks)
    /\ pc' = "finally"
    /\ UNCHANGED <<peer, unverifiable, fs, dir, args, store, conn, now, cat, thrown, outcome, exportFiles,
                   fileIdx, activityFiles, actFileIdx, recIdx, imported, errors,
                   totalImported, totalErrors, stats, vIdx, rejects, lastOp, disconnects,
                   accepted, profCalls, snap, clean, prevClean>>

\* disconnect() placed at the end of the try block instead of in finally.
FinallyAfterSuccessOnly ==
    /\ pc = "finally"
    /\ IF thrown = "none"
       THEN conn' = "ended" /\ lastOp' = "end" /\ disconnects' = disconnects + 1
       ELSE UNCHANGED <<conn, lastOp, disconnects>>
    /\ outcome' = IF thrown = "none" THEN "resolved" ELSE "rejected"
    /\ pc' = "done"
    /\ UNCHANGED <<peer, unverifiable, fs, dir, args, store, now, cat, thrown, exportFiles, fileIdx,
                   activityFiles, actFileIdx, recIdx, imported, errors, totalImported,
                   totalErrors, stats, vIdx, rejects, accepted, profCalls, snap, clean,
                   prevClean>>

\* run() as one transaction: a failing run leaves none of its rows.
FinallyRollsBack ==
    /\ pc = "finally"
    /\ conn' = "ended"
    /\ lastOp' = "end"
    /\ disconnects' = disconnects + 1
    /\ outcome' = IF thrown = "none" THEN "resolved" ELSE "rejected"
    /\ store' = IF thrown = "none" THEN store ELSE EmptyStore
    /\ pc' = "done"
    /\ UNCHANGED <<peer, unverifiable, fs, dir, args, now, cat, thrown, exportFiles, fileIdx,
                   activityFiles, actFileIdx, recIdx, imported, errors, totalImported,
                   totalErrors, stats, vIdx, rejects, accepted, profCalls, snap, clean,
                   prevClean>>

\* run: finally { await this.disconnect() }; the promise settles.
Finally ==
    /\ pc = "finally"
    /\ conn' = "ended"
    /\ lastOp' = "end"
    /\ disconnects' = disconnects + 1
    /\ outcome' = IF thrown = "none" THEN "resolved" ELSE "rejected"
    /\ pc' = "done"
    /\ UNCHANGED <<peer, unverifiable, fs, dir, args, store, now, cat, thrown, exportFiles, fileIdx,
                   activityFiles, actFileIdx, recIdx, imported, errors, totalImported,
                   totalErrors, stats, vIdx, rejects, accepted, profCalls, snap, clean,
                   prevClean>>

Next ==
    \/ ConnectOk
    \/ ConnectFails
    \/ SelectFiles
    \/ FileMissing
    \/ FileUnparseable
    \/ OpenFile
    \/ ProfileOk
    \/ ProfileRejected
    \/ RecordSkipped
    \/ RecordThrows
    \/ RecordOk
    \/ RecordRejected
    \/ ImporterEnd
    \/ ImportActivities
    \/ ActFileUnreadable
    \/ ActFileOpen
    \/ ActWrapperThrows
    \/ ActSummaryThrows
    \/ ActOk
    \/ ActRejected
    \/ ActFileEnd
    \/ VerifyCheck
    \/ Summary
    \/ Finally

Spec == Init /\ [][Next]_vars

\* run() is one thread of control that is never suspended for good.
InitFair ==
    /\ InitExitPaths
    /\ unverifiable = {}
    /\ Constructed
    /\ peer = NoPeer
FairSpec == InitFair /\ [][Next]_vars /\ WF_vars(Next)

\* ================================================================== claims
\* The last importer of a daily file has gone through every record: the file's
\* writes are all done.
DayPassDone ==
    /\ pc = "loop"
    /\ cat = Last(DayImporters)
    /\ recIdx > Len(Records(CurFile))
\* The loop over an activity file has gone through every wrapper.
ActPassDone == pc = "act" /\ recIdx > Len(Records(CurActFile))
\* The file just processed is the one processed right before it, and the
\* store rejected no statement of either pass.
SecondDayPassDone ==
    /\ DayPassDone
    /\ fileIdx > 1
    /\ exportFiles[fileIdx - 1] = CurFile
    /\ prevClean
    /\ clean
SecondActPassDone ==
    /\ ActPassDone
    /\ actFileIdx > 1
    /\ activityFiles[actFileIdx - 1] = CurActFile
    /\ prevClean
    /\ clean
\* The store with user_profile.updated_at, which no statement parameter sets,
\* put aside.
WithoutStamp(st) ==
    [st EXCEPT !["user_profile"] =
        [i \in DOMAIN @ |-> [@[i] EXCEPT !.updated_at = ColumnDefault]]]

\* C1 as stated: importing the same daily bundle, or the same activity bundle,
\* a second time leaves every relation as the first import left it, row for
\* row and column for column.
C1_SecondImportChangesNothing ==
    /\ SecondDayPassDone => store = snap
    /\ SecondActPassDone => store = snap

\* C1, amended: importing the same daily bundle, or the same activity bundle, a
\* second time leaves every relation with the same rows and the same values in
\* every column the import supplies; user_profile.updated_at alone is set anew
\* (CURRENT_TIMESTAMP) by the second import.
C1_SecondImportKeepsValues ==
    /\ SecondDayPassDone => WithoutStamp(store) = WithoutStamp(snap)
    /\ SecondActPassDone => WithoutStamp(store) = WithoutStamp(snap)

\* A bundle with a profile and two days was imported twice; only updated_at moved.
C1_Witness ==
    /\ SecondDayPassDone
    /\ Len(store["daily_health_metrics"]) >= 2
    /\ Len(store["sleep_sessions"]) >= 1
    /\ Len(store["user_profile"]) = 1
    /\ store # snap

\* ---------------------------------------------------------------------- C2
\* A day is structurally invalid for an importer: not an object, or without
\* the importer's sub-section.
InvalidDay(c, day) == IF ReadThrows(day) THEN TRUE ELSE ~Truthy(Get(day, Section(c)))
\* A wrapper is structurally invalid: not an object, without its summary, or
\* without its activity id.
InvalidWrapper(w) ==
    IF ReadThrows(w) THEN TRUE
    ELSE IF ReadThrows(Get(w, "summary")) THEN TRUE
    ELSE KeyIsNull(ActivityRow(Get(w, "summary")))
InvalidDays(c, recs) == {i \in DOMAIN recs : InvalidDay(c, recs[i])}
InvalidWrappers(recs) == {i \in DOMAIN recs : InvalidWrapper(recs[i])}
\* The row of the i-th day is in the importer's relation.
DayLanded(c, i) ==
    \E j \in DOMAIN store[c] :
        Conflicts(store[c][j], RowOf(c, i, Records(CurFile)[i]), KeyOf(c))
ActivityLanded(w) ==
    \E j \in DOMAIN store["activities"] :
        store["activities"][j].activity_id = Get(Get(w, "summary"), "activityId")

\* C2 as stated: a batch of N records of which exactly one is structurally
\* invalid ends with imported = N-1 and errors = 1, its N-1 valid records in
\* the store, and the run not aborted (the store rejecting nothing).
C2_OneInvalidRecordIsIsolated ==
    /\ ( /\ pc = "loop"
         /\ recIdx > Len(Records(CurFile))
         /\ Cardinality(InvalidDays(cat, Records(CurFile))) = 1
         /\ clean )
       => /\ imported = Len(Records(CurFile)) - 1
          /\ errors = 1
          /\ \A i \in DOMAIN Records(CurFile) \ InvalidDays(cat, Records(CurFile)) :
                DayLanded(cat, i)
    /\ ( /\ cat = "activities"
         /\ pc \in {"act", "finally", "done"}
         /\ thrown \in {"none", "TypeError"}
         /\ Cardinality(InvalidWrappers(Records(CurActFile))) = 1
         /\ clean )
       => /\ thrown = "none"
          /\ ActPassDone =>
               /\ imported = Len(Records(CurActFile)) - 1
               /\ errors = 1
               /\ \A i \in DOMAIN Records(CurActFile) \ InvalidWrappers(Records(CurActFile)) :
                     ActivityLanded(Records(CurActFile)[i])

\* ---------------------------------------------------------------------- C3
\* processExportFile has been called on the k-th daily file and has returned
\* or raised.
Handled(k) == k < fileIdx \/ (k = fileIdx /\ pc # "file")
\* An explicitly named daily file that does not exist has been handled.
MissingNamedFileHandled ==
    /\ Len(args.dailyFiles) > 0
    /\ \E k \in 1..fileIdx : ~Exists(exportFiles[k]) /\ Handled(k)

\* C3 as stated: once an explicitly named daily file is found not to exist, the
\* run is aborting with a fatal error (no later step runs) and it ends rejected
\* with the connection released.
C3_MissingNamedFileAborts ==
    MissingNamedFileHandled =>
        /\ thrown # "none"
        /\ pc \in {"finally", "done"}
        /\ pc = "done" => outcome = "rejected" /\ conn = "ended"

\* C3, amended: an explicitly named daily file that does not exist is skipped:
\* processExportFile returns without a store operation and without raising,
\* the run goes on to the next file or to the activity import, and the
\* connection is released when the run ends.
C3_MissingNamedFileSkipped ==
    /\ [][ ( /\ pc = "file"
             /\ Len(args.dailyFiles) > 0
             /\ ~Exists(CurFile) )
           => /\ store' = store
              /\ lastOp' = lastOp
              /\ thrown' = "none"
              /\ IF fileIdx < Len(exportFiles)
                 THEN pc' = "file" /\ fileIdx' = fileIdx + 1
                 ELSE pc' = "activities" ]_vars
    /\ [](pc = "done" => conn = "ended" /\ disconnects = 1)

\* A named file was missing, a later one was imported, and the run resolved.
C3_Witness ==
    /\ MissingNamedFileHandled
    /\ pc = "done"
    /\ outcome = "resolved"
    /\ conn = "ended"
    /\ Len(store["daily_health_metrics"]) > 0

\* ---------------------------------------------------------------------- C4
\* C4: on every exit path of run() disconnect is eventually called, exactly
\* once; it is the last store operation, and nothing is issued after it.
C4_ConnectionReleasedOnEveryPath ==
    /\ <>(disconnects = 1)
    /\ [](pc = "done" => disconnects = 1)
    /\ [](disconnects <= 1)
    /\ [](conn = "ended" <=> disconnects = 1)
    /\ [](disconnects = 1 => lastOp = "end" /\ pc = "done")
    /\ [][disconnects = 1 => lastOp' = lastOp /\ store' = store /\ conn' = conn]_vars

\* A run aborted by a TypeError of the activity import has disconnected.
C4_Witness ==
    /\ pc = "done"
    /\ thrown = "TypeError"
    /\ disconnects = 1
    /\ conn = "ended"
    /\ lastOp = "end"

\* ---------------------------------------------------------------------- C5
MatchingDaily == {f \in Range(dir) : IsDailyFile(f)}
MatchingActivities == {f \in Range(dir) : IsActivitiesFile(f)}
Greatest(S) == CHOOSE x \in S : \A y \in S \ {x} : NameLess(y, x)
Ascending(s) == \A i, j \in DOMAIN s : i < j => NameLess(s[i], s[j])
\* The list the selection policy asks for.
FollowsPolicy(list, matching, latest) ==
    IF latest /\ matching # {}
    THEN list = <<Greatest(matching)>>
    ELSE /\ Range(list) = matching
         /\ Len(list) = Cardinality(matching)
         /\ Ascending(list)
\* run has resolved the daily files; importActivities has resolved its files.
DailySelected == pc \notin {"connect", "select"} /\ thrown # "connect"
ActivitiesSelected == actFileIdx > 0 \/ vIdx > 0

\* C5 as stated: without explicit files, each category's list is the greatest
\* matching name alone in only-latest mode, and all matching names in ascending
\* order otherwise, whatever the order of the directory listing.
C5_SelectionPolicy ==
    /\ (Len(args.dailyFiles) = 0 /\ DailySelected)
       => FollowsPolicy(exportFiles, MatchingDaily, args.onlyLatest)
    /\ (Len(args.activityFiles) = 0 /\ ActivitiesSelected)
       => FollowsPolicy(activityFiles, MatchingActivities, args.onlyLatestActivities)

\* ---------------------------------------------------------------------- C6
\* C6 as stated: explicit files of a category are processed exactly as given,
\* in the order given, whatever the only-latest flag of the category.
C6_ExplicitFilesAsGiven ==
    /\ (Len(args.dailyFiles) > 0 /\ DailySelected) => exportFiles = args.dailyFiles
    /\ (Len(args.activityFiles) > 0 /\ ActivitiesSelected)
       => activityFiles = args.activityFiles

\* ---------------------------------------------------------------------- C7
\* No explicit file, and no name of the directory matches either category.
NothingToImport ==
    /\ Len(args.dailyFiles) = 0
    /\ Len(args.activityFiles) = 0
    /\ MatchingDaily = {}
    /\ MatchingActivities = {}

\* C7: with nothing to import, a run that reached the store issues no
\* statement, writes nothing, sets no counter, does not fail, and ends resolved
\* with the connection released.
C7_NoOpRun ==
    NothingToImport =>
        /\ lastOp # "query"
        /\ store = snap
        /\ \A r \in Relations : accepted[r] = 0
        /\ stats = NoStats
        /\ thrown \in {"none", "connect"}
        /\ conn = "open" => thrown = "none"
        /\ pc = "done" =>
             /\ conn = "ended"
             /\ disconnects = 1
             /\ thrown = "none" => outcome = "resolved"

\* A directory holding only a file of another suffix: the run resolved.
C7_Witness ==
    /\ NothingToImport
    /\ dir # <<>>
    /\ pc = "done"
    /\ outcome = "resolved"
    /\ conn = "ended"

\* ---------------------------------------------------------------------- C8
HasProfile(day) == Truthy(OptGet(day, "user_summary"))
ProfileDays(recs) == {i \in DOMAIN recs : HasProfile(recs[i])}
FirstProfileDay(recs) ==
    recs[CHOOSE i \in ProfileDays(recs) : \A j \in ProfileDays(recs) : i <= j]
NameOf(day) == ProfileRow(Get(day, "user_summary")).display_name

\* C8 as stated: a daily bundle in which two or more records carry a profile
\* gets exactly one user_profile upsert, with the profile of the first record
\* that carries one.
C8_FirstProfileInFileOrder ==
    (DayPassDone /\ Cardinality(ProfileDays(Records(CurFile))) >= 2) =>
        /\ profCalls = 1
        /\ clean =>
             /\ Len(store["user_profile"]) = 1
             /\ store["user_profile"][1].display_name
                  = NameOf(FirstProfileDay(Records(CurFile)))

\* C8, amended: processExportFile looks for the profile in the first record of
\* the file only. If that record carries a profile, exactly one user_profile
\* upsert is issued, with that profile; if it does not, none is issued, whatever
\* the later records carry. The profile of a later record never reaches the
\* store.
C8_ProfileOfFirstRecordOnly ==
    (DayPassDone /\ Records(CurFile) # <<>>) =>
        IF HasProfile(Records(CurFile)[1])
        THEN /\ profCalls = 1
             /\ \A i \in DOMAIN store["user_profile"] :
                  \/ store["user_profile"][i].display_name = NameOf(Records(CurFile)[1])
                  \/ /\ ~clean
                     /\ i \in DOMAIN snap["user_profile"]
                     /\ store["user_profile"][i] = snap["user_profile"][i]
             /\ clean => Len(store["user_profile"]) = 1
        ELSE /\ profCalls = 0
             /\ store["user_profile"] = snap["user_profile"]

\* Two records with different profiles: one upsert, with the first record's.
C8_Witness ==
    /\ DayPassDone
    /\ Len(Records(CurFile)) >= 2
    /\ HasProfile(Records(CurFile)[1])
    /\ HasProfile(Records(CurFile)[2])
    /\ NameOf(Records(CurFile)[1]) # NameOf(Records(CurFile)[2])
    /\ profCalls = 1
    /\ Len(store["user_profile"]) = 1
    /\ store["user_profile"][1].display_name = NameOf(Records(CurFile)[1])

\* ---------------------------------------------------------------------- C9
CountedCategories ==
    {"daily_health_metrics", "sleep_sessions", "body_composition", "activities"}
StatOf(c) == IF c \in DOMAIN stats THEN stats[c] ELSE 0
\* run() has printed its summary.
SummaryReported == pc \in {"finally", "done"} /\ thrown = "none" /\ vIdx > Len(Checks)

\* C9 as stated: when the summary is reported, the stats entry of each of the
\* four categories is the number of records upserted for it over all files of
\* the run, and the grand total is the sum of those four numbers.
C9_StatsAccumulateOverRun ==
    SummaryReported =>
        /\ \A c \in CountedCategories : StatOf(c) = accepted[c]
        /\ TotalRecords(stats) = SumOver(accepted, CountedCategories)

\* --------------------------------------------------------------------- C10
MutableColumns ==
    {"activity_name", "duration_seconds", "distance_meters", "calories", "bmr_calories",
     "average_hr", "max_hr", "average_speed", "max_speed", "elevation_gain",
     "elevation_loss"}
FirstInsertColumns ==
    {"activity_id", "user_id", "activity_type", "start_time_local", "start_time_gmt",
     "begin_latitude", "begin_longitude", "has_polyline", "active_calories"}
\* The row the activity statement at hand carries.
IncomingActivity == ActivityRow(Get(Records(CurActFile)[recIdx], "summary"))

\* C10: an accepted upsert of an activity whose id is already in the store
\* keeps the number of rows, gives the row of that id the new values in the
\* mutable columns, and leaves its activity_id, begin_latitude,
\* begin_longitude, has_polyline and every other column, and every other row,
\* as they were.
C10_ReimportFrame ==
    [][ ( /\ accepted'["activities"] = accepted["activities"] + 1
          /\ \E i \in DOMAIN store["activities"] :
                store["activities"][i].activity_id = IncomingActivity.activity_id )
        => /\ Len(store'["activities"]) = Len(store["activities"])
           /\ \A i \in DOMAIN store["activities"] :
                IF store["activities"][i].activity_id = IncomingActivity.activity_id
                THEN /\ \A c \in MutableColumns :
                          store'["activities"][i][c] = IncomingActivity[c]
                     /\ \A c \in FirstInsertColumns :
                          store'["activities"][i][c] = store["activities"][i][c]
                     /\ DOMAIN store'["activities"][i] = MutableColumns \cup FirstInsertColumns
                ELSE store'["activities"][i] = store["activities"][i] ]_vars

\* Activity 101 was imported as "run" at latitude 52, then again as "long run"
\* at latitude 48: the name is the new one, the latitude the first one.
C10_Witness ==
    /\ pc = "act"
    /\ \E i \in DOMAIN store["activities"] :
         /\ store["activities"][i].activity_id = Num(101)
         /\ store["activities"][i].activity_name = Str("long run")
         /\ store["activities"][i].begin_latitude = Num(52)
         /\ store["activities"][i].has_polyline = Bool(TRUE)
         /\ store["activities"][i].duration_seconds = Num(0)

\* --------------------------------------------------------------------- C11
DatedRelations == {"daily_health_metrics", "sleep_sessions", "body_composition"}
\* The rows of relation c that carry the key of row.
RowsOfKey(rel, row, c) == {i \in DOMAIN rel : Conflicts(rel[i], row, KeyOf(c))}
OneRowPerKey(c) ==
    \A i, j \in DOMAIN store[c] :
        Conflicts(store[c][i], store[c][j], KeyOf(c)) => i = j
\* The row the statement of the dated importer at work carries.
IncomingDay == RowOf(cat, recIdx, Records(CurFile)[recIdx])

\* C11: every accepted upsert of a dated importer leaves exactly one row of its
\* key, equal to the normalized record in every attribute, nulls of the newer
\* record included; the rows of the three dated relations change by accepted
\* upserts only, and there is one row per key at all times.
C11_LastWriteWins ==
    /\ [][ \A c \in DatedRelations :
             /\ store'[c] # store[c] => accepted'[c] = accepted[c] + 1
             /\ accepted'[c] = accepted[c] + 1 =>
                  /\ cat = c
                  /\ Cardinality(RowsOfKey(store'[c], IncomingDay, c)) = 1
                  /\ \A i \in RowsOfKey(store'[c], IncomingDay, c) :
                       store'[c][i] = IncomingDay
                  /\ \A i \in DOMAIN store[c] \ RowsOfKey(store[c], IncomingDay, c) :
                       store'[c][i] = store[c][i] ]_vars
    /\ [](\A c \in DatedRelations : OneRowPerKey(c))

\* The first date was imported from a full record and again from one with zero
\* steps and no heart rate: the stored rows are the newer record's, nulls and all.
C11_Witness ==
    /\ accepted["daily_health_metrics"] >= 2
    /\ accepted["sleep_sessions"] >= 2
    /\ store["daily_health_metrics"] = <<DailyRow(1, DayB)>>
    /\ store["sleep_sessions"] = <<SleepRow(1, DayB)>>
    /\ DailyRow(1, DayB).total_steps = Null
    /\ DailyRow(1, DayA).total_steps # Null
    /\ SleepRow(1, DayB).sleep_start_time = Null

\* ----------------------------------------------------- two concurrent runs
\* The statements one run issues for a bundle, in order, while the store
\* accepts each of them.
ProfileStatements(recs) ==
    IF Truthy(OptGet(FirstDay(recs), "user_summary"))
    THEN <<[rel |-> "user_profile",
            row |-> ProfileRow(Get(FirstDay(recs), "user_summary"))]>>
    ELSE <<>>
HasSection(c, day) == IF ReadThrows(day) THEN FALSE ELSE Truthy(Get(day, Section(c)))
DatedStatements(c, recs) ==
    LET keep == SelectSeq([i \in 1..Len(recs) |-> i], LAMBDA i : HasSection(c, recs[i]))
    IN  [k \in 1..Len(keep) |-> [rel |-> c, row |-> RowOf(c, keep[k], recs[keep[k]])]]
DailyStatements(recs) ==
    ProfileStatements(recs) \o DatedStatements(DayImporters[1], recs)
        \o DatedStatements(DayImporters[2], recs) \o DatedStatements(DayImporters[3], recs)
ActivityStatements(recs) ==
    [i \in 1..Len(recs) |->
        [rel |-> "activities", row |-> ActivityRow(Get(recs[i], "summary"))]]
KeyOfRelation(r) ==
    CASE r = "user_profile" -> ProfileKey
      [] r = "activities" -> ActivityKey
      [] OTHER -> KeyOf(r)
UpdateOfRelation(r) ==
    CASE r = "user_profile" -> ProfileUpdate
      [] r = "activities" -> ActivityUpdate
      [] OTHER -> UpdateOf(r)

\* The days that are objects, and the activities whose upsert the store accepts.
SoundDays == {DayA, DayB, DayBare}
SoundActivities == {ActA1, ActA2, ActB}
\* Two runs start on the same bundle and an empty store; the second run is
\* followed through its statements only.
InitConcurrent ==
    /\ \/ \E r \in SeqsUpTo(SoundDays, MaxRecs) :
            /\ dir = <<D1>>
            /\ fs = (D1 :> DailyBundle(r))
            /\ peer = [stmts |-> DailyStatements(r), at |-> 1]
       \/ \E r \in SeqsUpTo(SoundActivities, MaxRecs) :
            /\ dir = <<D1, A1>>
            /\ fs = (D1 :> DailyBundle(<<>>)) @@ (A1 :> ActivityBundle(r))
            /\ peer = [stmts |-> ActivityStatements(r), at |-> 1]
    /\ args = NoArgs
    /\ store = EmptyStore
    /\ unverifiable = {}
    /\ Constructed

\* The statement the second run issues next.
PeerStatement == peer.stmts[peer.at]
\* The second run inserts the row it found absent when it looked earlier: a
\* read followed by a write instead of one statement.
PeerWritesAfterStaleRead ==
    /\ peer.at <= Len(peer.stmts)
    /\ store' = [store EXCEPT ![PeerStatement.rel] = Append(@, PeerStatement.row)]
    /\ peer' = [peer EXCEPT !.at = @ + 1]
    /\ UNCHANGED <<unverifiable, fs, dir, args, conn, now, pc, cat, thrown, outcome,
                   exportFiles, fileIdx, activityFiles, actFileIdx, recIdx, imported,
                   errors, totalImported, totalErrors, stats, vIdx, rejects, lastOp,
                   disconnects, accepted, profCalls, snap, clean, prevClean>>
\* The second run's next statement, executed by the store as one atomic step.
PeerUpsert ==
    /\ peer.at <= Len(peer.stmts)
    /\ IF PeerStatement.rel = "user_profile"
       THEN \E ts \in Readings(PeerStatement.row) :
              /\ now' = ts
              /\ store' = [store EXCEPT !["user_profile"] =
                              UpsertProfile(@, PeerStatement.row, Stamp(ts))]
       ELSE /\ now' = now
            /\ store' = [store EXCEPT ![PeerStatement.rel] =
                            Upsert(@, PeerStatement.row, KeyOfRelation(PeerStatement.rel),
                                   UpdateOfRelation(PeerStatement.rel))]
    /\ peer' = [peer EXCEPT !.at = @ + 1]
    /\ UNCHANGED <<unverifiable, fs, dir, args, conn, pc, cat, thrown, outcome,
                   exportFiles, fileIdx, activityFiles, actFileIdx, recIdx, imported,
                   errors, totalImported, totalErrors, stats, vIdx, rejects, lastOp,
                   disconnects, accepted, profCalls, snap, clean, prevClean>>

\* The steps of a run whose statements the store accepts, and the second run's.
ConcurrentNext ==
    \/ ConnectOk
    \/ SelectFiles
    \/ OpenFile
    \/ ProfileOk
    \/ RecordSkipped
    \/ RecordOk
    \/ ImporterEnd
    \/ ImportActivities
    \/ ActFileOpen
    \/ ActOk
    \/ ActFileEnd
    \/ VerifyCheck
    \/ Summary
    \/ Finally
    \/ PeerUpsert

ConcurrentSpec == InitConcurrent /\ [][ConcurrentNext]_vars

\* --------------------------------------------------------------------- C12
\* The statements of the bundle both runs import.
BundleStatements == peer.stmts
\* The store one run alone leaves: its statements applied in order.
Apply(st, stmt) ==
    [st EXCEPT ![stmt.rel] =
        IF stmt.rel = "user_profile"
        THEN UpsertProfile(@, stmt.row, Stamp(0))
        ELSE Upsert(@, stmt.row, KeyOfRelation(stmt.rel), UpdateOfRelation(stmt.rel))]
ApplyAll(stmts, st) ==
    LET after[k \in 0..Len(stmts)] == IF k = 0 THEN st ELSE Apply(after[k - 1], stmts[k])
    IN  after[Len(stmts)]
SingleRun == ApplyAll(BundleStatements, EmptyStore)
BothRunsDone == peer.at > Len(peer.stmts) /\ pc \in {"verify", "finally", "done"} /\ thrown = "none"
NoDuplicateKey ==
    \A r \in Relations : \A i, j \in DOMAIN store[r] :
        Conflicts(store[r][i], store[r][j], KeyOfRelation(r)) => i = j
\* Every value of every row is a value the bundle holds for that row's key
\* (updated_at, which the store sets, apart).
OnlyBundleValues ==
    \A r \in Relations : \A i \in DOMAIN store[r] :
        LET same == {k \in DOMAIN BundleStatements :
                        IF BundleStatements[k].rel = r
                        THEN Conflicts(BundleStatements[k].row, store[r][i],
                                       KeyOfRelation(r))
                        ELSE FALSE}
        IN  \A c \in DOMAIN store[r][i] \ {"updated_at"} :
                \E k \in same : BundleStatements[k].row[c] = store[r][i][c]

\* C12 as stated: whatever the interleaving of the two runs' upserts, the store
\* ends as a single run of the bundle leaves it, column for column; no
\* interleaving shows a duplicate key or a value the bundle does not hold.
C12_ConcurrentRunsEndAsOne ==
    /\ NoDuplicateKey
    /\ OnlyBundleValues
    /\ BothRunsDone => store = SingleRun

\* C12, amended: whatever the interleaving of the two runs' upserts, the store
\* ends with the rows of a single run and their values in every column the
\* import supplies; user_profile.updated_at alone differs, set by the run whose
\* profile statement came second. No interleaving shows a duplicate key or a
\* value the bundle does not hold.
C12_ConcurrentRunsKeepValues ==
    /\ NoDuplicateKey
    /\ OnlyBundleValues
    /\ BothRunsDone => WithoutStamp(store) = WithoutStamp(SingleRun)

\* Both runs are done with a bundle of two days and a profile. The second run
\* had written the profile and one daily row when the first opened the file, and
\* wrote the rest while or after the first ran.
C12_Witness ==
    /\ BothRunsDone
    /\ Len(snap["user_profile"]) = 1
    /\ Len(snap["daily_health_metrics"]) = 1
    /\ Len(store["daily_health_metrics"]) = 2
    /\ Len(store["sleep_sessions"]) = 2
    /\ accepted["daily_health_metrics"] = 2
    /\ store # SingleRun
    /\ WithoutStamp(store) = WithoutStamp(SingleRun)

\* --------------------------------------------------------------------- C13
\* verifyImport is at work: some of its five queries are still to come.
Verifying == pc = "verify" /\ vIdx <= Len(Checks)

\* C13: whichever of the five count queries raise, each query of verifyImport
\* is followed by the next relation's, changes no relation and raises nothing
\* out of verifyImport; a run that reached verification resolves, after all
\* five relations were checked.
C13_VerifierInformational ==
    /\ [][Verifying =>
            /\ vIdx' = vIdx + 1
            /\ pc' = "verify"
            /\ thrown' = "none"
            /\ store' = store]_vars
    /\ [][pc = "verify" /\ pc' # "verify" =>
            vIdx = Len(Checks) + 1 /\ thrown' = "none" /\ store' = store]_vars
    /\ [](pc = "done" /\ vIdx >= 1 => vIdx = Len(Checks) + 1 /\ outcome = "resolved")

\* A run imported a day and an activity, all five count queries raised, and
\* the run resolved with the rows in place.
C13_Witness ==
    /\ pc = "done"
    /\ unverifiable = Relations
    /\ vIdx = Len(Checks) + 1
    /\ outcome = "resolved"
    /\ Len(store.daily_health_metrics) >= 1
    /\ Len(store.activities) >= 1

\* --------------------------------------------------------------------- C14
\* A day with a stats sub-section and no heart-rate sub-section.
NoHeartRate(d) ==
    /\ ~ReadThrows(d)
    /\ Truthy(Get(d, "stats"))
    /\ ~Truthy(Get(d, "heart_rate"))
\* The daily importer stands at such a day.
AtDayWithoutHeartRate ==
    /\ pc = "loop"
    /\ cat = "daily_health_metrics"
    /\ recIdx <= Len(Records(CurFile))
    /\ NoHeartRate(Records(CurFile)[recIdx])
\* The three heart-rate columns of a daily row are null.
HeartRateNull(row) ==
    /\ row.resting_heart_rate = Null
    /\ row.min_heart_rate = Null
    /\ row.max_heart_rate = Null

\* C14: a day with a stats sub-section and no heart-rate sub-section is
\* counted as imported and not as an error, unless the store itself rejects the
\* statement, and the row stored for its date has null resting, min and max
\* heart rate.
C14_NoHeartRateStoredAsNull ==
    [][AtDayWithoutHeartRate /\ rejects' = rejects =>
          /\ imported' = imported + 1
          /\ errors' = errors
          /\ thrown' = "none"
          /\ \E j \in DOMAIN store'["daily_health_metrics"] :
                /\ Conflicts(store'["daily_health_metrics"][j], IncomingDay,
                             KeyOf("daily_health_metrics"))
                /\ HeartRateNull(store'["daily_health_metrics"][j])
                /\ store'["daily_health_metrics"][j].total_distance_meters =
                       Get(Get(Records(CurFile)[recIdx], "stats"), "totalDistanceMeters")]_vars

\* The daily importer has just imported a day without heart rate over a row
\* that had one: the row's heart-rate columns are null, and no error is counted.
C14_Witness ==
    /\ pc = "loop"
    /\ cat = "daily_health_metrics"
    /\ recIdx = 2
    /\ NoHeartRate(Records(CurFile)[1])
    /\ imported = 1
    /\ errors = 0
    /\ Len(snap["daily_health_metrics"]) = 1
    /\ snap["daily_health_metrics"][1].resting_heart_rate = Num(55)
    /\ Len(store["daily_health_metrics"]) = 1
    /\ HeartRateNull(store["daily_health_metrics"][1])

\* --------------------------------------------------------------------- C15
\* run() returned without error and without a verification query: the
\* "no export files found" exit.
EarlyExit == pc = "done" /\ thrown = "none" /\ vIdx = 0
\* An activity bundle is named on the command line or found in the directory.
ActivitiesToImport == Len(args.activityFiles) > 0 \/ MatchingActivities # {}

\* C15: the early exit is taken only when there is neither a daily file nor an
\* activity file; with no daily file but an activity bundle in the directory or
\* on the command line, a run that does not fail has imported the activities
\* and run the five verification queries.
C15_ShortCircuitOnlyWhenBothEmpty ==
    /\ EarlyExit => Len(exportFiles) = 0 /\ ~ActivitiesToImport
    /\ pc = "done" /\ thrown = "none" /\ Len(exportFiles) = 0 /\ ActivitiesToImport =>
         /\ vIdx = Len(Checks) + 1
         /\ Len(activityFiles) > 0

\* --------------------------------------------------------------------- C16
\* processExportFile is about to parse a bundle that exists and parses.
OpeningBundle == pc = "file" /\ Exists(CurFile) /\ fs[CurFile].parses
\* A later record of the file carries a profile, the first one does not.
ProfileOnlyLater(recs) ==
    /\ ProfileDays(recs) # {}
    /\ 1 \notin ProfileDays(recs)

\* C16 as stated: for a daily bundle in which some record carries a profile,
\* the profile is imported from the first record in file order that carries
\* one, also when that record is not the first of the file.
C16_ProfileFromFirstCarrier ==
    (DayPassDone /\ clean /\ ProfileDays(Records(CurFile)) # {}) =>
        /\ profCalls = 1
        /\ \E i \in DOMAIN store["user_profile"] :
              store["user_profile"][i].display_name =
                  NameOf(FirstProfileDay(Records(CurFile)))

\* C16, amended: for every daily bundle the profile statement is issued exactly
\* when the first record of the file carries a profile sub-section, and it
\* carries that record's profile; when the first record lacks one, earlier
\* records do prevent the import: user_profile is left as it was, whatever the
\* later records carry. user_profile is written by that statement only.
C16_ProfileFromFirstRecordIfAny ==
    /\ [][OpeningBundle =>
            (pc' = "profile" <=>
                Records(CurFile) # <<>> /\ HasProfile(Records(CurFile)[1]))]_vars
    /\ [][store'["user_profile"] # store["user_profile"] =>
            /\ pc = "profile"
            /\ \E i \in DOMAIN store'["user_profile"] :
                  store'["user_profile"][i].display_name = NameOf(Records(CurFile)[1])]_vars
    /\ [](pc = "loop" /\ ProfileOnlyLater(Records(CurFile)) =>
            profCalls = 0 /\ store["user_profile"] = snap["user_profile"])

\* A bundle whose second record carries a profile and whose first does not was
\* imported in full: its days are stored, no profile is.
C16_Witness ==
    /\ DayPassDone
    /\ clean
    /\ ProfileOnlyLater(Records(CurFile))
    /\ Len(store["daily_health_metrics"]) >= 1
    /\ profCalls = 0
    /\ store["user_profile"] = <<>>

\* --------------------------------------------------------------------- C17
\* An importer's loop stands at a record for which it issues its statement.
AtStatement ==
    \/ /\ pc = "loop"
       /\ recIdx <= Len(Records(CurFile))
       /\ ~ReadThrows(Records(CurFile)[recIdx])
       /\ Truthy(Get(Records(CurFile)[recIdx], Section(cat)))
    \/ /\ pc = "act"
       /\ recIdx <= Len(Records(CurActFile))
       /\ ~ReadThrows(Records(CurActFile)[recIdx])
       /\ ~ReadThrows(Get(Records(CurActFile)[recIdx], "summary"))
\* The records of the current dated importer's loop that were counted so far:
\* those with the importer's sub-section, and those the read of which raised.
CountedSoFar ==
    {i \in 1..(recIdx - 1) :
        IF ReadThrows(Records(CurFile)[i]) THEN TRUE
        ELSE Truthy(Get(Records(CurFile)[i], Section(cat)))}

SourceField ==
    [activity_name |-> "activityName", start_time_local |-> "startTimeLocal",
     start_time_gmt |-> "startTimeGMT", duration_seconds |-> "duration",
     distance_meters |-> "distance", calories |-> "calories",
     bmr_calories |-> "bmrCalories", average_hr |-> "averageHR", max_hr |-> "maxHR",
     average_speed |-> "averageSpeed", max_speed |-> "maxSpeed",
     elevation_gain |-> "elevationGain", elevation_loss |-> "elevationLoss",
     begin_latitude |-> "startLatitude", begin_longitude |-> "startLongitude",
     active_calories |-> "activeKilocalories"]

\* C18: when an activity is inserted, every optional field of its summary that
\* is absent, null or zero is stored as null (the duration included: no
\* duration is stored as null, not as 0), and an absent polyline flag is
\* stored as false.
C18_AbsentFieldsStoredAsNull ==
    [][pc = "act" /\ Len(store'["activities"]) = Len(store["activities"]) + 1 =>
          LET activity == Get(Records(CurActFile)[recIdx], "summary")
              row == Last(store'["activities"])
          IN  /\ \A c \in DOMAIN SourceField :
                    ~Truthy(Get(activity, SourceField[c])) => row[c] = Null
              /\ ~Truthy(OptGet(Get(activity, "activityType"), "typeKey")) =>
                    row.activity_type = Null
              /\ ~Truthy(Get(activity, "hasPolyline")) =>
                    row.has_polyline = Bool(FALSE)]_vars

\* --------------------------------------------------------------------- C19
\* The relations a step writes.
Written == {r \in Relations : store'[r] # store[r]}
\* The importer that follows c within a daily file.
NextImporter(c) == IF c = DayImporters[1] THEN DayImporters[2] ELSE DayImporters[3]
\* run() is past the loop over the daily files.
DailyFilesDone == pc \in {"activities", "actFile", "act", "verify"}

\* C19: a step issues one statement at most; within a daily file the profile
\* statement comes first, then the daily, sleep and body-composition importers
\* in turn, each over the records in file order and each begun after the one
\* before it has passed its last record; the next daily file is begun after
\* the last importer of the current one is through (or the file is missing);
\* activities are imported after the last daily file; the verification
\* queries come once each, after which nothing is written.
C19_StrictSequencing ==
    /\ [][Cardinality(Written) <= 1]_vars
    /\ [][\A r \in Written :
            IF r = "user_profile" THEN pc = "profile"
            ELSE IF r = "activities" THEN pc = "act" /\ recIdx' = recIdx + 1
            ELSE pc = "loop" /\ cat = r /\ recIdx' = recIdx + 1]_vars
    /\ [][(pc = "file" \/ pc = "profile") /\ pc' = "loop" =>
            cat' = DayImporters[1] /\ recIdx' = 1]_vars
    /\ [][pc = "loop" /\ pc' = "loop" =>
            IF cat' = cat
            THEN recIdx' \in {recIdx, recIdx + 1}
            ELSE /\ recIdx > Len(Records(CurFile))
                 /\ cat' = NextImporter(cat)
                 /\ recIdx' = 1
                 /\ fileIdx' = fileIdx]_vars
    /\ [][fileIdx' # fileIdx =>
            /\ fileIdx' = fileIdx + 1
            /\ IF fileIdx = 0 THEN pc = "select"
               ELSE IF pc = "file" THEN ~Exists(CurFile) ELSE DayPassDone]_vars
    /\ [][pc' = "activities" /\ pc # "activities" =>
            IF pc = "file" THEN ~Exists(CurFile) ELSE DayPassDone]_vars
    /\ [](DailyFilesDone => fileIdx = Len(exportFiles))
    /\ [][DailyFilesDone => \A r \in Written : r = "activities"]_vars
    /\ [][vIdx >= 1 => Written = {} /\ vIdx' \in {vIdx, vIdx + 1}]_vars
    /\ [](vIdx >= 1 /\ activityFiles # <<>> =>
            actFileIdx = Len(activityFiles) /\ recIdx > Len(Records(CurActFile)))

\* A run over two daily files and an activity file is over: rows of both
\* phases are stored and the five verification queries were issued.
C19_Witness ==
    /\ pc = "done"
    /\ outcome = "resolved"
    /\ Len(exportFiles) = 2
    /\ fileIdx = 2
    /\ Len(activityFiles) >= 1
    /\ Len(store["daily_health_metrics"]) >= 1
    /\ Len(store["sleep_sessions"]) >= 1
    /\ Len(store["activities"]) >= 1
    /\ vIdx = Len(Checks) + 1

\* --------------------------------------------------------------------- C20
\* An error is on its way out of run(), or has left it.
Failing == thrown # "none"

\* C20: the step at which a fatal error is raised writes nothing; from then on
\* no statement is accepted, no activity is imported, no verification query
\* is issued and every stored row stays as it is; the error is never dropped,
\* and the run ends rejected.
C20_FatalAbortKeepsProgress ==
    /\ [][~Failing /\ thrown' # "none" =>
            store' = store /\ accepted' = accepted /\ pc' = "finally"]_vars
    /\ [][Failing =>
            /\ store' = store
            /\ accepted' = accepted
            /\ vIdx' = vIdx
            /\ thrown' = thrown
            /\ totalImported' = totalImported
            /\ pc' \in {"finally", "done"}]_vars
    /\ [](Failing => vIdx = 0 /\ (pc = "finally" \/ pc = "done"))
    /\ [](pc = "done" /\ Failing => outcome = "rejected")

\* The second daily file of a run did not parse: the run ended rejected, the
\* rows of the first file are in the store, and no activity was imported.
C20_Witness ==
    /\ pc = "done"
    /\ thrown = "SyntaxError"
    /\ outcome = "rejected"
    /\ fileIdx = 2
    /\ activityFiles = <<>>
    /\ accepted["daily_health_metrics"] >= 1
    /\ Len(store["daily_health_metrics"]) >= 1
    /\ Len(store["sleep_sessions"]) >= 1
    /\ vIdx = 0

\* --------------------------------------------------------------------- C21
\* The records of the current file that are objects without the sub-section
\* of the importer at work: the loop continues past them.
Skipped ==
    {i \in DOMAIN Records(CurFile) :
        IF ReadThrows(Records(CurFile)[i]) THEN FALSE
        ELSE ~Truthy(Get(Records(CurFile)[i], Section(cat)))}
\* The records of the current file the read of which raises.
Unreadable == {i \in DOMAIN Records(CurFile) : ReadThrows(Records(CurFile)[i])}
\* The loop of a dated importer stands at a record.
AtRecord == pc = "loop" /\ recIdx <= Len(Records(CurFile))

\* C21: a pass of a dated importer starts with both counters at zero; at each
\* record, imported goes up by one exactly when the store accepts an upsert,
\* errors goes up by one exactly when the record's processing raises (the read
\* of a null day, or the store's rejection), and a record without the
\* importer's sub-section changes neither counter nor the store; when the pass
\* is through, imported + errors + skipped is the number of records of the file.
C21_CounterAccounting ==
    /\ [][pc' = "loop" /\ (pc # "loop" \/ cat' # cat) =>
            imported' = 0 /\ errors' = 0 /\ recIdx' = 1]_vars
    /\ [][AtRecord /\ recIdx' # recIdx =>
            /\ recIdx' = recIdx + 1
            /\ imported' - imported + errors' - errors = IF recIdx \in Skipped THEN 0 ELSE 1
            /\ imported' = imported + (accepted'[cat] - accepted[cat])
            /\ imported' \in {imported, imported + 1}
            /\ errors' \in {errors, errors + 1}
            /\ recIdx \in Skipped => store' = store /\ lastOp' = lastOp
            /\ recIdx \in Unreadable => errors' = errors + 1 /\ store' = store
            /\ errors' = errors + 1 => store' = store]_vars
    /\ [][AtRecord /\ recIdx' = recIdx =>
            imported' = imported /\ errors' = errors /\ accepted' = accepted]_vars
    /\ [](pc = "loop" /\ recIdx > Len(Records(CurFile)) =>
            /\ imported + errors + Cardinality(Skipped) = Len(Records(CurFile))
            /\ errors >= Cardinality(Unreadable)
            /\ errors - Cardinality(Unreadable) <= rejects)

\* The daily importer is through a file of three records: one was imported,
\* one was null and counted as an error, one had no stats and was skipped.
C21_Witness ==
    /\ pc = "loop"
    /\ cat = "daily_health_metrics"
    /\ Len(Records(CurFile)) = 3
    /\ recIdx = 4
    /\ imported = 1
    /\ errors = 1
    /\ Cardinality(Skipped) = 1
    /\ Cardinality(Unreadable) = 1
    /\ rejects = 0

====
